---- MODULE Spec2Model ----
(***************************************************************************)
(* Model of main.py of System-metric-monitor: the speed-test report parser *)
(* get_speed_metrics, the psutil readers get_network_metrics and           *)
(* get_system_metrics, and update_df, which reads metrics.csv, builds one  *)
(* row and rewrites the file.                                              *)
(*                                                                         *)
(* A Python str is a sequence of one-character strings; a Python float is  *)
(* a record [inf, v] whose v counts units of 10^-FracDigits.               *)
(***************************************************************************)
EXTENDS Integers, Sequences, FiniteSets, TLC

\* ------------------------------------------------------------------ bounds
\* Invocations of update_df started in one behaviour.
MaxRuns == 3

\* ------------------------------------------------------- program constants
\* COLUMNS, main.py:14-17.
COLUMNS ==
  << "Download speed", "Upload speed", "Packages out", "Packages in",
     "Errors in", "Errors out", "Drop in", "Drop out", "CPU perc use",
     "Average load", "Free memory (bytes)", "Percent free memory",
     "Datetime" >>

\* unit_scale_factors.append(1), main.py:45.
MScale == 1
\* unit_scale_factors.append(1000), main.py:47.
GScale == 1000
\* round(..., 3), main.py:93: the finest decimal the program produces, taken
\* as the resolution of the modelled floats.
FracDigits == 3
\* float() of a digit string with more integer digits than this is inf
\* (main.py:110; the largest double has 309 integer digits).
FloatMaxDigits == 309

\* ------------------------------------------------------------ Python basics
Min(a, b) == IF a <= b THEN a ELSE b
Max(a, b) == IF a >= b THEN a ELSE b

Digits == {"0", "1", "2", "3", "4", "5", "6", "7", "8", "9"}

\* str.isdigit() on one character.
IsDigit(c) == c \in Digits

DigitVal(c) ==
  CASE c = "0" -> 0 [] c = "1" -> 1 [] c = "2" -> 2 [] c = "3" -> 3
    [] c = "4" -> 4 [] c = "5" -> 5 [] c = "6" -> 6 [] c = "7" -> 7
    [] c = "8" -> 8 [] c = "9" -> 9

RECURSIVE Pow10(_)
Pow10(n) == IF n = 0 THEN 1 ELSE 10 * Pow10(n - 1)

\* s[-k]; the caller checks HasNeg(s, k) first, Python raises IndexError.
HasNeg(s, k) == k <= Len(s)
Neg(s, k) == s[Len(s) - k + 1]

\* s[n:] and s[-n:].
DropFirst(s, n) == SubSeq(s, n + 1, Len(s))
LastN(s, n) == SubSeq(s, Max(1, Len(s) - n + 1), Len(s))

\* str * int: the string repeated n times.
StrMul(s, n) == [i \in 1..(Len(s) * n) |-> s[((i - 1) % Len(s)) + 1]]

\* dict(zip(keys, vals)) as the ordered list of its items; zip stops at the
\* shorter argument.
Zip(keys, vals) ==
  [i \in 1..Min(Len(keys), Len(vals)) |-> <<keys[i], vals[i]>>]
\* list(d.values()) and list(d.keys()).
Values(d) == [i \in 1..Len(d) |-> d[i][2]]
Keys(d) == [i \in 1..Len(d) |-> d[i][1]]

\* ------------------------------------------------------- get_speed_metrics
\* The words of speedtest.txt in reading order: "for line in f: for word in
\* line.split()".  The file is held as its lines, a line as its words.
RECURSIVE Words(_)
Words(lines) ==
  IF lines = << >> THEN << >> ELSE Head(lines) \o Words(Tail(lines))

\* Whether classifying the word raises IndexError inside the try block.
RaisesIndexError(word) ==
  \/ ~HasNeg(word, 1)
  \/ /\ ~IsDigit(Neg(word, 1))
     /\ \/ ~HasNeg(word, 2)
        \/ Neg(word, 2) = "/" /\ ~HasNeg(word, 6)

\* One pass of the loop body on the pair of lists.
Classify(st, word) ==
  IF RaisesIndexError(word) THEN st
  ELSE IF IsDigit(Neg(word, 1)) THEN [st EXCEPT !.metrics = Append(@, word)]
  ELSE IF Neg(word, 2) = "/" THEN
    LET a == IF Neg(word, 6) = "M"
             THEN Append(st.unit_scale_factors, MScale)
             ELSE st.unit_scale_factors
        b == IF Neg(word, 6) = "G" THEN Append(a, GScale) ELSE a
    IN [st EXCEPT !.unit_scale_factors = b]
  ELSE st

\* Mutant: the try block around the loop, so the first IndexError ends it.
RECURSIVE TokenizeStops(_, _)
TokenizeStops(st, words) ==
  IF words = << >> \/ RaisesIndexError(Head(words)) THEN st
  ELSE TokenizeStops(Classify(st, Head(words)), Tail(words))

\* The loop of lines 37-49 from the lists st on.
RECURSIVE TokenizeFrom(_, _)
TokenizeFrom(st, words) ==
  IF words = << >> THEN st
  ELSE TokenizeFrom(Classify(st, Head(words)), Tail(words))

Tokenize(words) ==
  TokenizeFrom([metrics |-> << >>, unit_scale_factors |-> << >>], words)

SpeedKeys == << "distance", "time", "download", "upload" >>

\* Mutant: metrics[0][2:].
StripTwo(metrics, factors) ==
  IF Len(metrics) < 4 \/ Len(factors) < 2
  THEN [err |-> "IndexError@52-55", dict |-> << >>]
  ELSE LET m0 == [metrics EXCEPT ![1] = DropFirst(@, 2)]
           m2 == [m0 EXCEPT ![3] = StrMul(@, factors[1])]
           m3 == [m2 EXCEPT ![4] = StrMul(@, factors[2])]
       IN [err |-> "none", dict |-> Zip(SpeedKeys, m3)]

\* Mutant: every index guarded by a length test, so nothing raises and a
\* short list gives a short dict.
NormalizeLenient(metrics, factors) ==
  LET m0 == IF Len(metrics) >= 1
            THEN [metrics EXCEPT ![1] = DropFirst(@, 1)] ELSE metrics
      m2 == IF Len(metrics) >= 3 /\ Len(factors) >= 1
            THEN [m0 EXCEPT ![3] = StrMul(@, factors[1])] ELSE m0
      m3 == IF Len(metrics) >= 4 /\ Len(factors) >= 2
            THEN [m2 EXCEPT ![4] = StrMul(@, factors[2])] ELSE m2
  IN [err |-> "none", dict |-> Zip(SpeedKeys, m3)]

\* Lines 52-57 on the two lists: an index past the end of either raises
\* IndexError, which leaves the function.  A str times a scale factor is the
\* str repeated.
Normalize(metrics, factors) ==
  IF Len(metrics) < 4 \/ Len(factors) < 2
  THEN [err |-> "IndexError@52-55", dict |-> << >>]
  ELSE LET m0 == [metrics EXCEPT ![1] = DropFirst(@, 1)]
           m2 == [m0 EXCEPT ![3] = StrMul(@, factors[1])]
           m3 == [m2 EXCEPT ![4] = StrMul(@, factors[2])]
       IN [err |-> "none", dict |-> Zip(SpeedKeys, m3)]

get_speed_metrics(lines) ==
  LET st == Tokenize(Words(lines))
  IN Normalize(st.metrics, st.unit_scale_factors)

\* ---------------------------------------------------------------- float()
Fin(n) == [inf |-> FALSE, v |-> n]
PosInf == [inf |-> TRUE, v |-> 0]

CountOf(s, c) == Cardinality({i \in 1..Len(s) : s[i] = c})

\* Index of the first c in s, Len(s) + 1 when there is none.
FirstIndex(s, c) ==
  IF \E i \in 1..Len(s) : s[i] = c
  THEN CHOOSE i \in 1..Len(s) : s[i] = c /\ \A j \in 1..(i - 1) : s[j] # c
  ELSE Len(s) + 1

RECURSIVE StripZeros(_)
StripZeros(s) ==
  IF s # << >> /\ Head(s) = "0" THEN StripZeros(Tail(s)) ELSE s

RECURSIVE IntVal(_)
IntVal(s) ==
  IF s = << >> THEN 0
  ELSE 10 * IntVal(SubSeq(s, 1, Len(s) - 1)) + DigitVal(s[Len(s)])

\* The first FracDigits digits after the point, as units of 10^-FracDigits.
FracVal(s) ==
  LET kept == SubSeq(s, 1, Min(Len(s), FracDigits))
  IN IntVal(kept) * Pow10(FracDigits - Len(kept))

\* float(str) for a string of digits and points: a numeral with at most one
\* point and at least one digit converts, anything else is ValueError.  The
\* other forms float() accepts (sign, exponent, underscore, inf, nan) need
\* characters no word of the modelled reports has.
ParseFloat(s) ==
  IF \/ \E i \in 1..Len(s) : ~IsDigit(s[i]) /\ s[i] # "."
     \/ CountOf(s, ".") > 1
     \/ \A i \in 1..Len(s) : ~IsDigit(s[i])
  THEN [err |-> "ValueError@110", val |-> Fin(0)]
  ELSE LET dot == FirstIndex(s, ".")
           ip == StripZeros(SubSeq(s, 1, dot - 1))
           fp == SubSeq(s, dot + 1, Len(s))
       IN IF Len(ip) > FloatMaxDigits
          THEN [err |-> "none", val |-> PosInf]
          ELSE [err |-> "none",
                val |-> Fin(IntVal(ip) * Pow10(FracDigits) + FracVal(fp))]

\* float(int).
FloatOfInt(n) == Fin(n * Pow10(FracDigits))

\* round(x / 100, 3) on a finite float, ties to even.
RoundPercent(x) ==
  LET unit == 100 * Pow10(FracDigits - 3)
      q == x.v \div unit
      r == x.v % unit
      up == IF 2 * r > unit \/ (2 * r = unit /\ q % 2 = 1) THEN 1 ELSE 0
  IN Fin((q + up) * Pow10(FracDigits - 3))

\* ----------------------------------------------------- get_network_metrics
NetworkKeys ==
  << "byte_out", "byte_in", "pack_out", "pack_in", "err_in", "err_out",
     "drop_in", "drop_out" >>

\* counters is what psutil.net_io_counters() returned: a tuple, or None (the
\* field none) when the host has no interface, and tuple(None) is a
\* TypeError.
get_network_metrics(counters) ==
  IF counters.none
  THEN [err |-> "TypeError@71", dict |-> << >>]
  ELSE [err |-> "none", dict |-> Zip(NetworkKeys, counters.tuple)]

\* ------------------------------------------------------ get_system_metrics
SystemKeys == << "cpu_perc", "avg_load", "free_memory", "perc_memory" >>

\* sample: cpu the float of cpu_percent(interval=1), loadavg the tuple of
\* getloadavg() (absent on a platform without it: AttributeError), vm the
\* tuple of virtual_memory(), read at [1] and at [2].
get_system_metrics(sample) ==
  IF ~sample.has_loadavg
  THEN [err |-> "AttributeError@91", dict |-> << >>]
  ELSE [err |-> "none",
        dict |-> Zip(SystemKeys,
                     << sample.cpu, sample.loadavg[1], sample.vm[2],
                        RoundPercent(sample.vm[3]) >>)]

\* -------------------------------------------------- the frame and the file
IndexOf(seq, x) == CHOOSE i \in 1..Len(seq) : seq[i] = x

Without(seq, x) == SelectSeq(seq, LAMBDA c : c # x)

\* sorted(COLUMNS): the column order pandas gives the union of two frames'
\* columns under sort=True.
SortedColumns ==
  << "Average load", "CPU perc use", "Datetime", "Download speed", "Drop in",
     "Drop out", "Errors in", "Errors out", "Free memory (bytes)",
     "Packages in", "Packages out", "Percent free memory", "Upload speed" >>

\* A row of a frame with columns `from`, laid out under columns `to` (the
\* same labels in another order).
Reindex(row, from, to) == [i \in 1..Len(to) |-> row[IndexOf(from, to[i])]]

ReindexRows(rows, from, to) ==
  [k \in 1..Len(rows) |-> Reindex(rows[k], from, to)]

\* pd.read_csv: the header line names the columns, every later line is a row.
read_csv(file) == [columns |-> file.header, rows |-> file.rows]

\* pd.DataFrame([metrics], columns=COLUMNS): one row, ValueError when the
\* list and the columns differ in length.
OneRowFrame(metrics) ==
  IF Len(metrics) # Len(COLUMNS)
  THEN [err |-> "ValueError@113", frame |-> [columns |-> << >>, rows |-> << >>]]
  ELSE [err |-> "none", frame |-> [columns |-> COLUMNS, rows |-> <<metrics>>]]

\* Mutant: the rows are joined by position, not by label.
AppendFramePositional(df, other) ==
  LET cols == IF df.columns = other.columns THEN df.columns
              ELSE SortedColumns
  IN [columns |-> cols, rows |-> df.rows \o other.rows]

\* df.append(other, ignore_index=True, sort=True): rows of df, then rows of
\* other, matched by column label; columns that are not already aligned are
\* sorted.  Both frames carry the labels of COLUMNS.
AppendFrame(df, other) ==
  LET cols == IF df.columns = other.columns THEN df.columns
              ELSE SortedColumns
  IN [columns |-> cols,
      rows |-> ReindexRows(df.rows, df.columns, cols)
               \o ReindexRows(other.rows, other.columns, cols)]

\* df.set_index('Datetime') then to_csv(index=True, header=True): the index
\* column is written first, the other columns after it in frame order.
to_csv(df) ==
  LET cols == << "Datetime" >> \o Without(df.columns, "Datetime")
  IN [header |-> cols, rows |-> ReindexRows(df.rows, df.columns, cols)]

\* The rows of a file or frame as maps from column label to value.
Labelled(cols, rows) ==
  [k \in 1..Len(rows) |->
    [c \in {cols[i] : i \in 1..Len(cols)} |-> rows[k][IndexOf(cols, c)]]]

\* ---------------------------------------------------------------- state
Procs == {1, 2}

VARIABLES
  metrics_csv,    \* metrics.csv: [header, rows]
  speedtest_txt,  \* speedtest.txt: its lines, each a sequence of words
  pc,             \* per invocation: where update_df stands
  df,             \* per invocation: the frame read at line 103
  speed,          \* per invocation: the dict get_speed_metrics returned
  network,        \* per invocation: the dict get_network_metrics returned
  system,         \* per invocation: the dict get_system_metrics returned
  metrics,        \* per invocation: the flattened list of lines 110-111
  err,            \* per invocation: the exception that ended it, or "none"
  clock,          \* datetime.datetime.now(), as a tick count
  runs,           \* invocations started so far
  writes,         \* history: to_csv calls of the invocation
  start,          \* history: metrics.csv and the number of writes so far,
                  \* as they were when the invocation read the file
  log             \* history: one entry per to_csv, in order

vars ==
  << metrics_csv, speedtest_txt, pc, df, speed, network, system, metrics,
     err, clock, runs, writes, start, log >>

EmptyFrame == [columns |-> << >>, rows |-> << >>]

\* metrics.csv before the first run: the header of COLUMNS and no row.
InitialCsv == [header |-> COLUMNS, rows |-> << >>]

Init ==
  /\ metrics_csv = InitialCsv
  /\ speedtest_txt = << >>
  /\ pc = [p \in Procs |-> "idle"]
  /\ df = [p \in Procs |-> EmptyFrame]
  /\ speed = [p \in Procs |-> << >>]
  /\ network = [p \in Procs |-> << >>]
  /\ system = [p \in Procs |-> << >>]
  /\ metrics = [p \in Procs |-> << >>]
  /\ err = [p \in Procs |-> "none"]
  /\ clock = 0
  /\ runs = 0
  /\ writes = [p \in Procs |-> 0]
  /\ start = [p \in Procs |-> [file |-> InitialCsv, seen |-> 0]]
  /\ log = << >>

\* An invocation ends with an uncaught exception: nothing after the raising
\* statement runs.
Fail(p, e) ==
  /\ pc' = [pc EXCEPT ![p] = "failed"]
  /\ err' = [err EXCEPT ![p] = e]

\* Line 103: df = pd.read_csv('metrics.csv').
ReadCsv(p) ==
  /\ pc[p] = "idle"
  /\ runs < MaxRuns
  /\ df' = [df EXCEPT ![p] = read_csv(metrics_csv)]
  /\ pc' = [pc EXCEPT ![p] = "read"]
  /\ runs' = runs + 1
  /\ start' = [start EXCEPT ![p] = [file |-> metrics_csv, seen |-> Len(log)]]
  /\ UNCHANGED << metrics_csv, speedtest_txt, speed, network, system,
                  metrics, err, clock, writes, log >>

\* Lines 31-32: the shell command writes the report to speedtest.txt, here
\* in one step; subprocess.run returns when the command has ended.
RunSpeedtest(p, report) ==
  /\ pc[p] = "read"
  /\ speedtest_txt' = report
  /\ pc' = [pc EXCEPT ![p] = "ran"]
  /\ UNCHANGED << metrics_csv, df, speed, network, system, metrics, err,
                  clock, runs, writes, start, log >>

\* Lines 34-57: speedtest.txt is read back and parsed.
ParseSpeedtest(p) ==
  /\ pc[p] = "ran"
  /\ LET r == get_speed_metrics(speedtest_txt)
     IN IF r.err # "none"
        THEN Fail(p, r.err) /\ UNCHANGED speed
        ELSE /\ speed' = [speed EXCEPT ![p] = r.dict]
             /\ pc' = [pc EXCEPT ![p] = "speed"]
             /\ UNCHANGED err
  /\ UNCHANGED << metrics_csv, speedtest_txt, df, network, system, metrics,
                  clock, runs, writes, start, log >>

\* Line 107, lines 71-73.
NetworkMetrics(p, counters) ==
  /\ pc[p] = "speed"
  /\ LET r == get_network_metrics(counters)
     IN IF r.err # "none"
        THEN Fail(p, r.err) /\ UNCHANGED network
        ELSE /\ network' = [network EXCEPT ![p] = r.dict]
             /\ pc' = [pc EXCEPT ![p] = "network"]
             /\ UNCHANGED err
  /\ UNCHANGED << metrics_csv, speedtest_txt, df, speed, system, metrics,
                  clock, runs, writes, start, log >>

\* Line 108, lines 90-95.
SystemMetrics(p, sample) ==
  /\ pc[p] = "network"
  /\ LET r == get_system_metrics(sample)
     IN IF r.err # "none"
        THEN Fail(p, r.err) /\ UNCHANGED system
        ELSE /\ system' = [system EXCEPT ![p] = r.dict]
             /\ pc' = [pc EXCEPT ![p] = "system"]
             /\ UNCHANGED err
  /\ UNCHANGED << metrics_csv, speedtest_txt, df, speed, network, metrics,
                  clock, runs, writes, start, log >>

\* Lines 106-108: list(d.values())[-2:], [-6:] and the whole list.  The
\* slices are taken here of the dict's items, so that a value keeps the key
\* it came with; the values are taken in FloatAll.
SpeedSlice(d) == LastN(d, 2)
\* Mutants: [:6], and no slice at all.
NetworkSliceFirst(d) == SubSeq(d, 1, Min(Len(d), 6))
NetworkSliceAll(d) == d
NetworkSlice(d) == LastN(d, 6)
SystemSlice(d) == d

\* Line 110, [float(item) ...] over the three lists in order.  The speed
\* values are str, the counters int, and of the system values free_memory
\* is int and the others are float already.  A str that is no numeral
\* raises ValueError.
FloatAll(sp, nw, sy) ==
  LET a == [i \in 1..Len(sp) |-> ParseFloat(sp[i][2])]
  IN IF \E i \in 1..Len(a) : a[i].err # "none"
     THEN [err |-> "ValueError@110", list |-> << >>]
     ELSE [err |-> "none",
           list |-> [i \in 1..Len(a) |-> a[i].val]
                    \o [i \in 1..Len(nw) |-> FloatOfInt(nw[i][2])]
                    \o [i \in 1..Len(sy) |->
                         IF sy[i][1] = "free_memory"
                         THEN FloatOfInt(sy[i][2]) ELSE sy[i][2]]]

\* Lines 106-111: the three slices are flattened and converted, then the
\* current time is appended.  Every call of now() gives a later time.
Flatten(p) ==
  /\ pc[p] = "system"
  /\ LET r == FloatAll(SpeedSlice(speed[p]), NetworkSlice(network[p]),
                       SystemSlice(system[p]))
     IN IF r.err # "none"
        THEN Fail(p, r.err) /\ UNCHANGED << metrics, clock >>
        ELSE /\ clock' = clock + 1
             /\ metrics' = [metrics EXCEPT
                              ![p] = Append(r.list, [tick |-> clock + 1])]
             /\ pc' = [pc EXCEPT ![p] = "flat"]
             /\ UNCHANGED err
  /\ UNCHANGED << metrics_csv, speedtest_txt, df, speed, network, system,
                  runs, writes, start, log >>

\* What one to_csv leaves in the history: who wrote, the row as a map from
\* column to value, how many rows the frame read at line 103 had, and how
\* many writes had happened when it was read.
LogEntry(p) ==
  [proc |-> p,
   row |-> Labelled(COLUMNS, << metrics[p] >>)[1],
   prior |-> Len(df[p].rows),
   seen |-> start[p].seen]

\* Mutant: the file is read again right before it is rewritten.
WriteCsvReread(p) ==
  /\ pc[p] = "flat"
  /\ LET f == OneRowFrame(metrics[p])
     IN IF f.err # "none"
        THEN Fail(p, f.err) /\ UNCHANGED << metrics_csv, writes, log >>
        ELSE /\ metrics_csv' = to_csv(AppendFrame(read_csv(metrics_csv),
                                                  f.frame))
             /\ writes' = [writes EXCEPT ![p] = @ + 1]
             /\ log' = Append(log, LogEntry(p))
             /\ pc' = [pc EXCEPT ![p] = "done"]
             /\ UNCHANGED err
  /\ UNCHANGED << speedtest_txt, df, speed, network, system, metrics, clock,
                  runs, start >>

\* Mutant: a row that fits no frame is still added to the file.
WriteCsvPartial(p) ==
  /\ pc[p] = "flat"
  /\ LET f == OneRowFrame(metrics[p])
     IN IF f.err # "none"
        THEN /\ Fail(p, f.err)
             /\ metrics_csv' = [metrics_csv EXCEPT
                                  !.rows = Append(@, metrics[p])]
             /\ UNCHANGED << writes, log >>
        ELSE /\ metrics_csv' = to_csv(AppendFrame(df[p], f.frame))
             /\ writes' = [writes EXCEPT ![p] = @ + 1]
             /\ log' = Append(log, LogEntry(p))
             /\ pc' = [pc EXCEPT ![p] = "done"]
             /\ UNCHANGED err
  /\ UNCHANGED << speedtest_txt, df, speed, network, system, metrics, clock,
                  runs, start >>

\* Lines 113-116: the one-row frame is built (ValueError when the list has
\* not one value per column), appended to the frame read at line 103, and
\* the result replaces metrics.csv.
WriteCsv(p) ==
  /\ pc[p] = "flat"
  /\ LET f == OneRowFrame(metrics[p])
     IN IF f.err # "none"
        THEN Fail(p, f.err) /\ UNCHANGED << metrics_csv, writes, log >>
        ELSE /\ metrics_csv' = to_csv(AppendFrame(df[p], f.frame))
             /\ writes' = [writes EXCEPT ![p] = @ + 1]
             /\ log' = Append(log, LogEntry(p))
             /\ pc' = [pc EXCEPT ![p] = "done"]
             /\ UNCHANGED err
  /\ UNCHANGED << speedtest_txt, df, speed, network, system, metrics, clock,
                  runs, start >>

\* The process of the invocation ends, normally or on the uncaught
\* exception; its locals are gone.
Exit(p) ==
  /\ pc[p] \in {"done", "failed"}
  /\ pc' = [pc EXCEPT ![p] = "idle"]
  /\ df' = [df EXCEPT ![p] = EmptyFrame]
  /\ speed' = [speed EXCEPT ![p] = << >>]
  /\ network' = [network EXCEPT ![p] = << >>]
  /\ system' = [system EXCEPT ![p] = << >>]
  /\ metrics' = [metrics EXCEPT ![p] = << >>]
  /\ err' = [err EXCEPT ![p] = "none"]
  /\ writes' = [writes EXCEPT ![p] = 0]
  /\ UNCHANGED << metrics_csv, speedtest_txt, clock, runs, start, log >>

\* ------------------------------------------------------------------ inputs
\* Words of a speedtest-cli report.
wHosted == << "H", "o", "s", "t", "e", "d" >>
wBy == << "b", "y" >>
wDistance == << "[", "3", ".", "1" >>
wKm == << "k", "m", "]", ":" >>
wLatency == << "1", "2", ".", "5" >>
wMs == << "m", "s" >>
wDownload == << "D", "o", "w", "n", "l", "o", "a", "d", ":" >>
wUpload == << "U", "p", "l", "o", "a", "d", ":" >>
wMbit == << "M", "b", "i", "t", "/", "s" >>
wGbit == << "G", "b", "i", "t", "/", "s" >>
wKbit == << "k", "b", "i", "t", "/", "s" >>
wOnePointTwo == << "1", ".", "2" >>
wPointFive == << "0", ".", "5" >>
wSeven == << "7" >>
\* Words the loop has no use for: one character, a short word with a slash,
\* a lone number.
wDash == << "-" >>
wPerSec == << "M", "B", "/", "s" >>
wNine == << "9" >>

HostLine(latency) == << wHosted, wBy, wDistance, wKm >> \o latency \o << wMs >>
DownloadLine(number, unit) == << wDownload, number >> \o unit
UploadLine(number, unit) == << wUpload, number >> \o unit

InsertAt(seq, k, x) == SubSeq(seq, 1, k) \o << x >> \o SubSeq(seq, k + 1, Len(seq))

\* The report of a normal run, in Mbit/s.
GoodReport ==
  << HostLine(<< wLatency >>), DownloadLine(wOnePointTwo, << wMbit >>),
     UploadLine(wPointFive, << wMbit >>) >>
\* The report of a fast link: the download in Gbit/s.
GbitReport ==
  << HostLine(<< wLatency >>), DownloadLine(wOnePointTwo, << wGbit >>),
     UploadLine(wPointFive, << wMbit >>) >>
\* The report of a run that ended before the upload test.
CutReport ==
  << HostLine(<< wLatency >>), DownloadLine(wOnePointTwo, << wMbit >>) >>

Reports == {GoodReport, GbitReport, CutReport}

\* Reports for the parser alone: every choice of latency present or absent,
\* download number, units present, absent or unrecognized, and at most one
\* extra word at any place of any line.
BaseReports ==
  { << HostLine(l), DownloadLine(d, u1), UploadLine(wPointFive, u2) >> :
      l \in {<< >>, << wLatency >>},
      d \in {wOnePointTwo, wSeven},
      u1 \in {<< >>, << wMbit >>, << wGbit >>, << wKbit >>},
      u2 \in {<< >>, << wMbit >>, << wGbit >>} }

ExtraWords == {wDash, wPerSec, wNine}

WithExtraWord(r, n) ==
  { [r EXCEPT ![n] = InsertAt(@, k, w)] : k \in 0..Len(r[n]), w \in ExtraWords }

ParseReports ==
  BaseReports \cup
  UNION { WithExtraWord(r, n) : r \in BaseReports, n \in 1..3 }

\* psutil.net_io_counters(): snetio has eight fields.
FullCounters == [none |-> FALSE, tuple |-> << 11, 12, 13, 14, 15, 16, 17, 18 >>]
ZeroCounters == [none |-> FALSE, tuple |-> << 0, 0, 0, 0, 0, 0, 0, 0 >>]
NoCounters == [none |-> TRUE, tuple |-> << >>]
PsutilCounters == {FullCounters, ZeroCounters, NoCounters}
\* A collaborator that hands over any prefix of the eight.
AnyCounters ==
  {NoCounters} \cup
  { [none |-> FALSE, tuple |-> SubSeq(FullCounters.tuple, 1, n)] : n \in 0..8 }

\* cpu 12.5 %, load 0.75, virtual_memory() = (total, available, percent, ...)
\* with 45.3 % used.
GoodSample ==
  [has_loadavg |-> TRUE, cpu |-> Fin(12500), loadavg |-> << Fin(750) >>,
   vm |-> << 8000, 4376, Fin(45300) >>]
NoLoadavgSample == [GoodSample EXCEPT !.has_loadavg = FALSE]
Samples == {GoodSample, NoLoadavgSample}

\* ----------------------------------------------------------- specifications
\* One step of invocation p of update_df.
UpdateDf(p, reports, counters, samples) ==
  \/ ReadCsv(p)
  \/ \E report \in reports : RunSpeedtest(p, report)
  \/ ParseSpeedtest(p)
  \/ \E c \in counters : NetworkMetrics(p, c)
  \/ \E s \in samples : SystemMetrics(p, s)
  \/ Flatten(p)
  \/ WriteCsv(p)

\* The scheduler never overlaps runs: one invocation at a time, the next one
\* starting after the process of the last has ended.  psutil hands over what
\* it documents.
Next ==
  UpdateDf(1, Reports, PsutilCounters, Samples) \/ Exit(1)

Spec == Init /\ [][Next]_vars

\* The same, with a counters collaborator that may hand over fewer fields.
NextAnyCounters ==
  UpdateDf(1, Reports, AnyCounters, Samples) \/ Exit(1)

SpecAnyCounters == Init /\ [][NextAnyCounters]_vars

\* Runs may overlap: nothing locks metrics.csv.
NextOverlap ==
  \E p \in Procs :
    UpdateDf(p, {GoodReport, CutReport}, {FullCounters}, {GoodSample})
      \/ Exit(p)

SpecOverlap == Init /\ [][NextOverlap]_vars

\* One invocation on each report of ParseReports.
NextParse ==
  UpdateDf(1, ParseReports, {FullCounters}, {GoodSample})

SpecParse == Init /\ [][NextParse]_vars

\* ------------------------------------------------- vocabulary of the claims
\* d[key] of a dict.
Lookup(d, key) == d[IndexOf(Keys(d), key)][2]

\* The places of a word list whose word satisfies Test, in order.
Places(words, Test(_)) ==
  SelectSeq([i \in 1..Len(words) |-> i], LAMBDA i : Test(words[i]))

\* A numeric candidate ends in a digit; a recognized unit marker is Mbit/s or
\* Gbit/s.
EndsInDigit(w) == Len(w) >= 1 /\ IsDigit(w[Len(w)])
IsUnitMarker(w) == w \in {wMbit, wGbit}
CandidatePlaces(words) == Places(words, EndsInDigit)
MarkerPlaces(words) == Places(words, IsUnitMarker)

IsNumeral(w) == ParseFloat(w).err = "none"

\* A well-formed report: four numeric tokens in the order distance (behind
\* its bracket), latency, download, upload, and two unit markers, the first
\* after the download number and the second after the upload number.
WellFormed(lines) ==
  LET w == Words(lines)
      c == CandidatePlaces(w)
      m == MarkerPlaces(w)
  IN /\ Len(c) = 4
     /\ Len(m) = 2
     /\ w[c[1]][1] = "["
     /\ IsNumeral(Tail(w[c[1]]))
     /\ \A i \in 2..4 : IsNumeral(w[c[i]])
     /\ c[3] < m[1] /\ m[1] < c[4] /\ c[4] < m[2]

\* The four number tokens and the two markers of a well-formed report.
TokenOf(lines, i) == Words(lines)[CandidatePlaces(Words(lines))[i]]
MarkerOf(lines, i) == Words(lines)[MarkerPlaces(Words(lines))[i]]

\* A number of Mbit/s or Gbit/s, in Mbit/s.
InMbit(number, marker) ==
  IF marker = wGbit THEN Fin(number.v * 1000) ELSE number

IsPrefix(a, b) == Len(a) <= Len(b) /\ SubSeq(b, 1, Len(a)) = a

\* get_speed_metrics has returned to invocation p.
Returned(p) == speed[p] # << >>

\* -------------------------------------------------------------------- C1
\* C1: for every well-formed report, the download that get_speed_metrics
\* returns is the number of the download token, times 1000 when its marker
\* is Gbit/s and unchanged when it is Mbit/s, and likewise the upload with
\* the second marker.
C1_SpeedsScaledToMbit ==
  (Returned(1) /\ WellFormed(speedtest_txt)) =>
    LET down == ParseFloat(Lookup(speed[1], "download"))
        up == ParseFloat(Lookup(speed[1], "upload"))
    IN /\ down.err = "none"
       /\ down.val = InMbit(ParseFloat(TokenOf(speedtest_txt, 3)).val,
                            MarkerOf(speedtest_txt, 1))
       /\ up.err = "none"
       /\ up.val = InMbit(ParseFloat(TokenOf(speedtest_txt, 4)).val,
                          MarkerOf(speedtest_txt, 2))

\* -------------------------------------------------------------------- C7
\* C7: for every well-formed report the distance returned is the first
\* numeric candidate without its first character, that character is the
\* bracket and no digit, every digit of the candidate is kept, and latency,
\* download and upload begin with the whole of their tokens.
C7_DistanceLosesOnlyItsBracket ==
  (Returned(1) /\ WellFormed(speedtest_txt)) =>
    LET first == TokenOf(speedtest_txt, 1)
        distance == Lookup(speed[1], "distance")
    IN /\ Len(distance) = Len(first) - 1
       /\ distance = Tail(first)
       /\ first[1] = "[" /\ ~IsDigit(first[1])
       /\ CountOf(distance, ".") = CountOf(first, ".")
       /\ IsNumeral(distance)
       /\ Lookup(speed[1], "time") = TokenOf(speedtest_txt, 2)
       /\ IsPrefix(TokenOf(speedtest_txt, 3), Lookup(speed[1], "download"))
       /\ IsPrefix(TokenOf(speedtest_txt, 4), Lookup(speed[1], "upload"))

C7_Witness ==
  /\ pc[1] = "speed"
  /\ WellFormed(speedtest_txt)
  /\ Lookup(speed[1], "distance") = << "3", ".", "1" >>

\* -------------------------------------------------------------------- C8
\* C8: a report with fewer than four numeric candidates or fewer than two
\* recognized unit markers makes get_speed_metrics fail; the failure ends
\* the invocation of update_df and no row is written.  A sample that is
\* returned has the four fields distance, time, download, upload.
C8_ShortReportFails ==
  LET w == Words(speedtest_txt)
      short == Len(CandidatePlaces(w)) < 4 \/ Len(MarkerPlaces(w)) < 2
  IN /\ (pc[1] \notin {"idle", "read", "ran"} /\ short) =>
           /\ pc[1] = "failed"
           /\ err[1] = "IndexError@52-55"
           /\ ~Returned(1)
           /\ metrics[1] = << >>
           /\ writes[1] = 0
           /\ metrics_csv = start[1].file
     /\ Returned(1) => Keys(speed[1]) = SpeedKeys

C8_Witness ==
  /\ pc[1] = "failed"
  /\ err[1] = "IndexError@52-55"
  /\ Len(CandidatePlaces(Words(speedtest_txt))) >= 4
  /\ Len(MarkerPlaces(Words(speedtest_txt))) = 1

\* ------------------------------------------------------------------- C10
\* The report without word k of line n.
WithoutWord(lines, n, k) ==
  [lines EXCEPT ![n] = SubSeq(@, 1, k - 1) \o SubSeq(@, k + 1, Len(@))]

\* What the parse of invocation p came to: the dict, or the exception.
Parsed(p) ==
  IF Returned(p) THEN [err |-> "none", dict |-> speed[p]]
  ELSE [err |-> err[p], dict |-> << >>]

\* C10: a word whose classification raises IndexError adds nothing: the
\* parse comes to what it comes to on the report without that word, the
\* lists of numeric candidates and scale factors included.
C10_RaisingWordIsSkipped ==
  pc[1] \in {"speed", "failed"} =>
    \A n \in 1..Len(speedtest_txt) :
      \A k \in 1..Len(speedtest_txt[n]) :
        RaisesIndexError(speedtest_txt[n][k]) =>
          /\ Parsed(1) = get_speed_metrics(WithoutWord(speedtest_txt, n, k))
          /\ Tokenize(Words(speedtest_txt))
               = Tokenize(Words(WithoutWord(speedtest_txt, n, k)))

C10_Witness ==
  /\ pc[1] = "speed"
  /\ WellFormed(speedtest_txt)
  /\ speedtest_txt[2][2] = wPerSec

\* -------------------------------------------------------------------- C2
\* C2: an invocation that failed, wherever it failed, has left metrics.csv
\* as it found it: it wrote nothing, no row and no part of one.
C2_FailureLeavesCsvAlone ==
  pc[1] = "failed" =>
    /\ metrics_csv = start[1].file
    /\ writes[1] = 0
    /\ Len(log) = start[1].seen

\* The frame could not be built, and the file held rows already.
C2_Witness ==
  /\ pc[1] = "failed"
  /\ err[1] = "ValueError@113"
  /\ Len(metrics_csv.rows) >= 1

\* -------------------------------------------------------------------- C3
\* The rows of metrics.csv, each as a map from column to value.
CsvRows == Labelled(metrics_csv.header, metrics_csv.rows)

\* C3: with runs serialized, the table is the rows of the successful
\* invocations so far, one each, in invocation order; a successful
\* invocation wrote once and added its row behind the rows it found, which
\* are unchanged; any other wrote nothing.
C3_TableGrowsOneRowPerRun ==
  /\ CsvRows = [k \in 1..Len(log) |-> log[k].row]
  /\ pc[1] = "done" =>
       LET before == Labelled(start[1].file.header, start[1].file.rows)
       IN /\ writes[1] = 1
          /\ Len(CsvRows) = Len(before) + 1
          /\ SubSeq(CsvRows, 1, Len(before)) = before
          /\ CsvRows[Len(CsvRows)] = log[Len(log)].row
  /\ pc[1] # "done" => writes[1] = 0

\* Three rows, so the file was read back in each of its column layouts.
C3_Witness ==
  /\ pc[1] = "done"
  /\ Len(metrics_csv.rows) >= 3
  /\ metrics_csv.header[2] = "Average load"

\* -------------------------------------------------------------------- C4
\* C4: counters of fewer than eight fields end the invocation in a failure;
\* no invocation that was handed fewer writes a row.
C4_ShortTupleWritesNoRow ==
  pc[1] = "done" => Len(network[1]) = 8

\* -------------------------------------------------------------------- C5
\* C5: the row has one value per column of COLUMNS, in that order, and each
\* column holds the metric of its name; Datetime is the time taken once the
\* three readers had returned, and no row exists before that.
C5_RowMatchesColumns ==
  /\ pc[1] \in {"flat", "done"} =>
       LET row == Labelled(COLUMNS, << metrics[1] >>)[1]
       IN /\ Len(metrics[1]) = Len(COLUMNS)
          /\ Len(COLUMNS) = 13
          /\ row["Download speed"] = ParseFloat(Lookup(speed[1], "download")).val
          /\ row["Upload speed"] = ParseFloat(Lookup(speed[1], "upload")).val
          /\ row["Packages out"] = FloatOfInt(Lookup(network[1], "pack_out"))
          /\ row["Packages in"] = FloatOfInt(Lookup(network[1], "pack_in"))
          /\ row["Errors in"] = FloatOfInt(Lookup(network[1], "err_in"))
          /\ row["Errors out"] = FloatOfInt(Lookup(network[1], "err_out"))
          /\ row["Drop in"] = FloatOfInt(Lookup(network[1], "drop_in"))
          /\ row["Drop out"] = FloatOfInt(Lookup(network[1], "drop_out"))
          /\ row["CPU perc use"] = Lookup(system[1], "cpu_perc")
          /\ row["Average load"] = Lookup(system[1], "avg_load")
          /\ row["Free memory (bytes)"]
               = FloatOfInt(Lookup(system[1], "free_memory"))
          /\ row["Percent free memory"] = Lookup(system[1], "perc_memory")
          /\ row["Datetime"] = [tick |-> clock]
          /\ pc[1] = "done" => CsvRows[Len(CsvRows)] = row
  /\ pc[1] \in {"idle", "read", "ran", "speed", "network", "system"} =>
       metrics[1] = << >>

\* A row is in the file whose counters differ from field to field.
C5_Witness ==
  /\ pc[1] = "done"
  /\ Lookup(network[1], "pack_out") = 13
  /\ Len(metrics_csv.rows) >= 2

\* -------------------------------------------------------------------- C6
\* The fields of the network sample whose values line 107 keeps.
PersistedNetworkFields(p) == Keys(NetworkSlice(network[p]))

Range(seq) == {seq[i] : i \in 1..Len(seq)}

\* C6 as stated: of the eight fields of the network sample the row takes
\* the four error and drop fields only.
C6_OnlyErrorsAndDropsPersisted ==
  (pc[1] \in {"flat", "done"} /\ Len(network[1]) = 8) =>
    Range(PersistedNetworkFields(1))
      = {"err_in", "err_out", "drop_in", "drop_out"}

\* C6 amended: of the eight fields the row takes six, the packet totals and
\* the error and drop fields, in positions 3 to 8; the byte totals alone are
\* sampled and not part of the row.
C6_PacketsErrorsAndDropsPersisted ==
  (pc[1] \in {"flat", "done"} /\ Len(network[1]) = 8) =>
    /\ PersistedNetworkFields(1)
         = << "pack_out", "pack_in", "err_in", "err_out", "drop_in",
              "drop_out" >>
    /\ \A i \in 1..6 :
         metrics[1][2 + i]
           = FloatOfInt(Lookup(network[1], PersistedNetworkFields(1)[i]))
    /\ Len(metrics[1]) = 13
    /\ {"byte_out", "byte_in"} \cap Range(PersistedNetworkFields(1)) = {}

C6_Witness ==
  /\ pc[1] = "done"
  /\ Values(network[1]) = FullCounters.tuple
  /\ metrics[1][3] = FloatOfInt(13)

\* -------------------------------------------------------------------- C9
\* C9: the table after a write is what the writer had read plus its one row.
\* So when the last writer read the file before an earlier write happened,
\* the row of that earlier write is not in the table (of two invocations
\* that both read before either wrote, the table has the prior rows and one
\* more, not two); and when every writer read the file after the write
\* before it, no row is lost.
C9_OverlapLosesTheFirstWrite ==
  LET n == Len(log)
  IN /\ n >= 1 =>
          /\ Len(CsvRows) = log[n].prior + 1
          /\ CsvRows[Len(CsvRows)] = log[n].row
     /\ \A i \in 1..(n - 1) :
          log[n].seen < i => log[i].row \notin Range(CsvRows)
     /\ (\A j \in 1..n : log[j].seen = j - 1) =>
          CsvRows = [k \in 1..n |-> log[k].row]

\* Two invocations read the empty table, both wrote, one row is left.
C9_Witness ==
  /\ Len(log) = 2
  /\ log[1].seen = 0 /\ log[2].seen = 0
  /\ log[1].proc # log[2].proc
  /\ Len(metrics_csv.rows) = 1

====
